---- MODULE Spec2Model ----
(***************************************************************************)
(* The aiohttp CRUD service of server.py: two views (UserView, AdvView)    *)
(* over two tables (users, advertisements).                                *)
(*                                                                         *)
(* A request handler is a coroutine; other requests run only while it is   *)
(* suspended in an await.  Each handler is therefore cut at its awaits on  *)
(* the store:                                                              *)
(*   Begin   request.json(), the pydantic schema, the construction of the  *)
(*           object, entering `async with app.async_session_maker()`       *)
(*   Lookup  await get_item(session, id, cls)                              *)
(*   Commit  await session.commit() (flush + COMMIT), the response and the *)
(*           exit of the `async with` block                                *)
(* The store is PostgreSQL under the table definitions of server.py:       *)
(* serial primary keys, UNIQUE(username), UNIQUE(email), the foreign key   *)
(* advertisements.owner -> users.id, server_default now().                 *)
(***************************************************************************)
EXTENDS Integers, Sequences, FiniteSets, TLC

(***************************************************************************)
(* Bounds of the model.                                                    *)
(***************************************************************************)
MaxUserSeq == 2      \* INSERTs into users the model follows
MaxAdvSeq == 1       \* INSERTs into advertisements the model follows

Clients == {"c1", "c2"}   \* the clients; each has one request in flight at most
Serial == {"c1"}          \* one client: its requests follow one another

(***************************************************************************)
(* Python / JSON values.  k is the type, s the text of a str, n the value  *)
(* of an int, l the items of a list.  None is Python's None (JSON null);   *)
(* Absent is a key the JSON object does not hold.                          *)
(***************************************************************************)
None == [k |-> "none", s |-> "", n |-> 0, l |-> << >>]
Absent == [k |-> "absent", s |-> "", n |-> 0, l |-> << >>]
PyStr(s) == [k |-> "str", s |-> s, n |-> 0, l |-> << >>]
PyInt(n) == [k |-> "int", s |-> "", n |-> n, l |-> << >>]
PyList(l) == [k |-> "list", s |-> "", n |-> 0, l |-> l]
\* a datetime object, n its instant on the store's clock
DateTime(t) == [k |-> "datetime", s |-> "", n |-> t, l |-> << >>]

\* str(n) and int(s) of Python, on the numbers the model uses
Digits == <<"0", "1", "2", "3", "4", "5", "6", "7", "8", "9">>
ToStr(n) == Digits[n + 1]
IsDigits(s) == \E n \in 0..9 : ToStr(n) = s
ToInt(s) == CHOOSE n \in 0..9 : ToStr(n) = s

\* Truthy with `if value is not None:` in the place of `if value:`
TruthyNotNone(v) == v.k \notin {"none", "absent"}

\* `if value:` of Python
Truthy(v) ==
    CASE v.k = "str" -> v.s # ""
      [] v.k = "int" -> v.n # 0
      [] v.k = "list" -> v.l # << >>
      [] OTHER -> FALSE

\* body.get(key): the value a JSON object holds under key
Field(body, key) == IF key \in DOMAIN body THEN body[key] ELSE Absent

(***************************************************************************)
(* pydantic (v1) schemas: the fields in declaration order.                 *)
(***************************************************************************)
CreateUserSchema ==
    << [name |-> "username", type |-> "str", required |-> TRUE],
       [name |-> "email", type |-> "str", required |-> TRUE],
       [name |-> "password", type |-> "str", required |-> TRUE] >>

PatchUserSchema ==
    << [name |-> "username", type |-> "str", required |-> FALSE],
       [name |-> "email", type |-> "str", required |-> FALSE],
       [name |-> "password", type |-> "str", required |-> FALSE] >>

CreateAdvertisementSchema ==
    << [name |-> "header", type |-> "str", required |-> TRUE],
       [name |-> "description", type |-> "str", required |-> TRUE],
       [name |-> "owner", type |-> "int", required |-> TRUE] >>

PatchAdvertisementSchema ==
    << [name |-> "header", type |-> "str", required |-> FALSE],
       [name |-> "description", type |-> "str", required |-> FALSE],
       [name |-> "owner", type |-> "str", required |-> FALSE],
       [name |-> "registration_time", type |-> "str", required |-> FALSE] >>

\* The error pydantic reports for value v of field f, or None when v is valid.
FieldError(f, v) ==
    LET err(msg, type) == [loc |-> f.name, msg |-> msg, type |-> type] IN
    CASE v.k = "absent" ->
           IF f.required THEN err("field required", "value_error.missing") ELSE None
      [] v.k = "none" ->
           IF f.required
           THEN err("none is not an allowed value", "type_error.none.not_allowed")
           ELSE None
      [] f.type = "str" ->
           IF v.k \in {"str", "int"} THEN None
           ELSE err("str type expected", "type_error.str")
      [] f.type = "int" ->
           IF v.k = "int" \/ (v.k = "str" /\ IsDigits(v.s)) THEN None
           ELSE err("value is not a valid integer", "type_error.integer")

\* The value pydantic stores for a valid v: str fields take str(v), int
\* fields int(v), an optional field left out or null is None.
Coerce(f, v) ==
    CASE v.k \in {"absent", "none"} -> None
      [] f.type = "str" -> IF v.k = "int" THEN PyStr(ToStr(v.n)) ELSE v
      [] f.type = "int" -> IF v.k = "str" THEN PyInt(ToInt(v.s)) ELSE v

\* err.errors(): the errors of the fields, in declaration order
Errors(schema, body) ==
    LET all == [i \in DOMAIN schema |-> FieldError(schema[i], Field(body, schema[i].name))]
    IN SelectSeq(all, LAMBDA e : e # None)

\* Schema(**body).dict()
Validated(schema, body) ==
    [name \in {schema[i].name : i \in DOMAIN schema} |->
        LET f == CHOOSE g \in {schema[i] : i \in DOMAIN schema} : g.name = name
        IN Coerce(f, Field(body, name))]

(***************************************************************************)
(* Responses.                                                              *)
(***************************************************************************)
NoResponse == [status |-> 0, json |-> << >>]
json_response(obj) == [status |-> 200, json |-> obj]
HTTPError(status_code, message) == [status |-> status_code, json |-> ("error" :> message)]
BadRequest(message) == HTTPError(400, message)
NotFound(message) == HTTPError(404, message)
\* an exception no handler catches: aiohttp answers 500, with no JSON body
ServerError == [status |-> 500, json |-> << >>]

Success == json_response(("status" :> PyStr("success")))

(***************************************************************************)
(* bcrypt.hashpw(password, salt): the salt and the digest of the password  *)
(* under that salt, in bcrypt's "$2b$..." text form.                       *)
(***************************************************************************)
Salts == {"s1"}
hashpw(password, salt) == "$2b$" \o salt \o "$" \o password

(***************************************************************************)
(* datetime.isoformat(), and the store's reading of a timestamp text.      *)
(***************************************************************************)
isoformat(t) == "2022-11-1" \o ToStr(t) \o "T00:00:00"
IsTimestamp(s) == \E t \in 0..9 : isoformat(t) = s
ToTimestamp(s) == CHOOSE t \in 0..9 : isoformat(t) = s

(***************************************************************************)
(* State.                                                                  *)
(*   users, advs       the tables: id -> row                               *)
(*   user_seq, adv_seq the last value of each table's id sequence          *)
(*   now               the store's clock (func.now()); the instants are    *)
(*                     numbered as the store reads it, at each INSERT into *)
(*                     advertisements                                      *)
(*   req               per client, the request it has in flight            *)
(*   sessions          the clients whose request holds an open session     *)
(***************************************************************************)
VARIABLES users, advs, user_seq, adv_seq, now, req, sessions

vars == <<users, advs, user_seq, adv_seq, now, req, sessions>>
store == <<users, advs, user_seq, adv_seq>>

NoRequest ==
    [pc |-> "idle", verb |-> "", cls |-> "", item_id |-> 0,
     body |-> << >>, item |-> << >>, resp |-> NoResponse]

Init ==
    /\ users = << >>
    /\ advs = << >>
    /\ user_seq = 0
    /\ adv_seq = 0
    /\ now = 1
    /\ req = [c \in Clients |-> NoRequest]
    /\ sessions = {}

(***************************************************************************)
(* The store's constraints.                                                *)
(***************************************************************************)
\* UniqueOk with the email column not declared unique
UniqueOkUsername(id, row) ==
    \A o \in DOMAIN users \ {id} : users[o].username # row.username

\* UniqueOk with the username column not declared unique
UniqueOkEmail(id, row) ==
    \A o \in DOMAIN users \ {id} : users[o].email # row.email

\* UNIQUE(username), UNIQUE(email): row may be stored under id
UniqueOk(id, row) ==
    \A o \in DOMAIN users \ {id} :
        users[o].username # row.username /\ users[o].email # row.email

\* OwnerOk with owner a plain Integer column
OwnerOkAny(owner) == owner \in Nat

\* FOREIGN KEY(owner) REFERENCES users(id)
OwnerOk(owner) == owner \in DOMAIN users

\* a row of advertisements references users.id = id
Referenced(id) == \E a \in DOMAIN advs : advs[a].owner = id

\* Without when the DELETE is never flushed
WithoutNothing(table, id) == table

\* the table after DELETE ... WHERE id = :id
Without(table, id) == [i \in DOMAIN table \ {id} |-> table[i]]

(***************************************************************************)
(* Pieces every handler shares.                                            *)
(***************************************************************************)
\* get_item raising BadRequest in the place of NotFound
get_itemBadRequest(table, item_id, cls) ==
    IF item_id \in DOMAIN table
    THEN [raised |-> FALSE, value |-> table[item_id]]
    ELSE [raised |-> TRUE, value |-> BadRequest(PyStr(cls \o " does not exist"))]

\* session.get(cls, item_id), NotFound when there is no such row
get_item(table, item_id, cls) ==
    IF item_id \in DOMAIN table
    THEN [raised |-> FALSE, value |-> table[item_id]]
    ELSE [raised |-> TRUE, value |-> NotFound(PyStr(cls \o " does not exist"))]

\* AsyncWithExit with session.close() at the end of the block, not in __aexit__
AsyncWithExitOnSuccess(open, c, status) == IF status = 200 THEN open \ {c} ELSE open

\* __aexit__ of `async with app.async_session_maker() as session`: the
\* session of client c is closed however the block is left
AsyncWithExit(open, c, status) == open \ {c}

\* the handler of client c starts on a new request
CanBegin(c) == req[c].pc \in {"idle", "done"}

\* the handler enters its `async with` block
Enter(c, verb, cls, item_id, body, item) ==
    /\ req' = [req EXCEPT ![c] =
                  [pc |-> "session", verb |-> verb, cls |-> cls, item_id |-> item_id,
                   body |-> body, item |-> item, resp |-> NoResponse]]
    /\ sessions' = sessions \cup {c}

\* the handler raises before it opens a session
Reject(c, verb, cls, item_id, body, resp) ==
    /\ req' = [req EXCEPT ![c] =
                  [pc |-> "done", verb |-> verb, cls |-> cls, item_id |-> item_id,
                   body |-> body, item |-> << >>, resp |-> resp]]
    /\ UNCHANGED sessions

\* the handler leaves its `async with` block with a response or an exception
Leave(c, resp) ==
    /\ req' = [req EXCEPT ![c].pc = "done", ![c].body = << >>, ![c].item = << >>,
                           ![c].resp = resp]
    /\ sessions' = AsyncWithExit(sessions, c, resp.status)

At(c, pc, verb, cls) ==
    /\ req[c].pc = pc
    /\ req[c].verb = verb
    /\ req[c].cls = cls

(***************************************************************************)
(* The requests the clients send.  Every body is a JSON object, and every  *)
(* string fits its column (String(60), String(100), String(64)).  The      *)
(* bodies cover: values of the declared type, values pydantic coerces (a   *)
(* number for a str field, a numeric text for owner), null, "", a key left *)
(* out, and values the schema rejects.                                     *)
(***************************************************************************)
UserIds == 1..MaxUserSeq
AdvIds == 1..MaxAdvSeq

UserCreateBodies ==
    { [username |-> u, email |-> e, password |-> PyStr("pw1")] :
        u \in {PyStr("alice"), PyInt(7)}, e \in {PyStr("a@x"), PyStr("b@x")} }
    \cup { [email |-> PyList(<< >>), password |-> PyStr("pw1")] }

UserPatchBodies ==
    { [username |-> PyInt(7)],
      [username |-> PyStr(""), email |-> PyStr("b@x")],
      [username |-> None, password |-> PyStr("pw2")],
      [email |-> PyStr("")],
      [username |-> PyList(<< >>)] }

\* the requests of the clients that run side by side
ConcurrentCreateBodies ==
    { [username |-> PyStr("alice"), email |-> PyStr("a@x"), password |-> PyStr("pw1")],
      [username |-> PyInt(7), email |-> PyStr("b@x"), password |-> PyStr("pw1")],
      [username |-> PyStr("alice"), email |-> PyStr("b@x"), password |-> PyStr("pw1")] }

ConcurrentPatchBodies ==
    { [username |-> PyStr("7")], [email |-> PyStr("a@x")], [username |-> PyList(<< >>)] }

AdvCreateBodies ==
    { [header |-> PyStr("car"), description |-> PyStr("good"), owner |-> o] :
        o \in {PyInt(1), PyStr("1"), PyInt(2)} }
    \cup { [header |-> None, description |-> PyStr("good"), owner |-> PyStr("x")] }

AdvPatchBodies ==
    { [header |-> PyStr("bike"), description |-> PyStr("")],
      [owner |-> PyStr("2")],
      [registration_time |-> PyStr(isoformat(0))],
      [header |-> None, registration_time |-> PyStr("")],
      [description |-> PyList(<< >>)] }

(***************************************************************************)
(* UserView                                                                *)
(***************************************************************************)
\* UserJson with every column of the row
UserJsonAllColumns(user) ==
    ("username" :> PyStr(user.username)) @@ ("email" :> PyStr(user.email))
    @@ ("password" :> PyStr(user.password))

\* the JSON UserView.get answers for a row
UserJson(user) ==
    ("username" :> PyStr(user.username)) @@ ("email" :> PyStr(user.email))

UserGetBegin(c, user_id) ==
    /\ CanBegin(c)
    /\ Enter(c, "GET", "User", user_id, << >>, << >>)
    /\ UNCHANGED <<store, now>>

\* what UserView.get answers for user_id when the table is `table`
UserViewGet(table, user_id) ==
    LET user == get_item(table, user_id, "User") IN
    IF user.raised THEN user.value ELSE json_response(UserJson(user.value))

UserGetLookup(c) ==
    /\ At(c, "session", "GET", "User")
    /\ Leave(c, UserViewGet(users, req[c].item_id))
    /\ UNCHANGED <<store, now>>

\* User(**json_data_validated), the password replaced by its bcrypt hash
NewUser(data, salt) ==
    [username |-> data["username"].s,
     email |-> data["email"].s,
     password |-> hashpw(data["password"].s, salt)]

UserPostBegin(c, body, salt) ==
    /\ CanBegin(c)
    /\ LET errors == Errors(CreateUserSchema, body) IN
       IF errors # << >>
       THEN Reject(c, "POST", "User", 0, body, BadRequest(PyList(errors)))
       ELSE /\ user_seq + Cardinality({d \in Clients : At(d, "session", "POST", "User")})
                 < MaxUserSeq
            /\ Enter(c, "POST", "User", 0, body,
                     NewUser(Validated(CreateUserSchema, body), salt))
    /\ UNCHANGED <<store, now>>

\* session.add(new_user); await session.commit(): the INSERT takes the next
\* value of the id sequence, whether or not the row is then accepted
UserPostCommit(c) ==
    /\ At(c, "session", "POST", "User")
    /\ LET id == user_seq + 1
           new_user == req[c].item
       IN /\ user_seq' = id
          /\ IF UniqueOk(id, new_user)
             THEN /\ users' = users @@ (id :> new_user)
                  /\ Leave(c, json_response(("id" :> PyInt(id))))
             ELSE \* IntegrityError
                  /\ UNCHANGED users
                  /\ Leave(c, BadRequest(PyStr("user already exists")))
    /\ UNCHANGED <<advs, adv_seq, now>>

UserPatchBegin(c, user_id, body) ==
    /\ CanBegin(c)
    /\ LET errors == Errors(PatchUserSchema, body) IN
       IF errors # << >>
       THEN Reject(c, "PATCH", "User", user_id, body, BadRequest(PyList(errors)))
       ELSE Enter(c, "PATCH", "User", user_id, body, << >>)
    /\ UNCHANGED <<store, now>>

\* get_item inside the session of a PATCH or a DELETE.  patch goes on with
\* the row it loaded; delete uses the identity of the row alone.
LookupForWrite(c, table, cls) ==
    LET item == get_item(table, req[c].item_id, cls) IN
    IF item.raised
    THEN Leave(c, item.value)
    ELSE /\ req' = [req EXCEPT ![c].pc = "loaded",
                                ![c].item = IF req[c].verb = "PATCH" THEN item.value
                                            ELSE << >>]
         /\ UNCHANGED sessions

UserPatchLookup(c) ==
    /\ At(c, "session", "PATCH", "User")
    /\ LookupForWrite(c, users, "User")
    /\ UNCHANGED <<store, now>>

\* the columns the loop `for column, value in ...: if value: setattr(...)` sets
ColumnsSet(data) == {column \in DOMAIN data : Truthy(data[column])}

\* the user object after the loop
PatchedUser(user, data) ==
    [column \in DOMAIN user |->
        IF column \in ColumnsSet(data) THEN data[column].s ELSE user[column]]

\* the flush writes the attributes whose value differs from the loaded one
Modified(item, patched) == {column \in DOMAIN item : patched[column] # item[column]}

UserPatchCommit(c) ==
    /\ At(c, "loaded", "PATCH", "User")
    /\ LET id == req[c].item_id
           user == req[c].item
           patched == PatchedUser(user, Validated(PatchUserSchema, req[c].body))
           modified == Modified(user, patched)
       IN IF modified = {}
          THEN \* no UPDATE is sent
               /\ UNCHANGED users
               /\ Leave(c, Success)
          ELSE IF id \notin DOMAIN users
          THEN \* UPDATE matched no row: StaleDataError
               /\ UNCHANGED users
               /\ Leave(c, ServerError)
          ELSE LET row == [column \in DOMAIN users[id] |->
                             IF column \in modified THEN patched[column]
                             ELSE users[id][column]]
               IN IF UniqueOk(id, row)
                  THEN /\ users' = [users EXCEPT ![id] = row]
                       /\ Leave(c, Success)
                  ELSE \* IntegrityError, which patch does not catch
                       /\ UNCHANGED users
                       /\ Leave(c, ServerError)
    /\ UNCHANGED <<advs, user_seq, adv_seq, now>>

UserDeleteBegin(c, user_id) ==
    /\ CanBegin(c)
    /\ Enter(c, "DELETE", "User", user_id, << >>, << >>)
    /\ UNCHANGED <<store, now>>

UserDeleteLookup(c) ==
    /\ At(c, "session", "DELETE", "User")
    /\ LookupForWrite(c, users, "User")
    /\ UNCHANGED <<store, now>>

UserDeleteCommit(c) ==
    /\ At(c, "loaded", "DELETE", "User")
    /\ LET id == req[c].item_id IN
       IF id \notin DOMAIN users
       THEN \* DELETE matched no row: SQLAlchemy warns and goes on
            /\ UNCHANGED users
            /\ Leave(c, Success)
       ELSE IF Referenced(id)
       THEN \* IntegrityError (foreign key), which delete does not catch
            /\ UNCHANGED users
            /\ Leave(c, ServerError)
       ELSE /\ users' = Without(users, id)
            /\ Leave(c, Success)
    /\ UNCHANGED <<advs, user_seq, adv_seq, now>>

(***************************************************************************)
(* AdvView                                                                 *)
(***************************************************************************)
\* the JSON AdvView.get answers for a row
AdvJson(adv) ==
    ("header" :> PyStr(adv.header))
    @@ ("registration_time" :> PyStr(isoformat(adv.registration_time)))
    @@ ("description" :> PyStr(adv.description))
    @@ ("owner" :> PyInt(adv.owner))

AdvGetBegin(c, adv_id) ==
    /\ CanBegin(c)
    /\ Enter(c, "GET", "Advertisement", adv_id, << >>, << >>)
    /\ UNCHANGED <<store, now>>

\* what AdvView.get answers for adv_id when the table is `table`
AdvViewGet(table, adv_id) ==
    LET adv == get_item(table, adv_id, "Advertisement") IN
    IF adv.raised THEN adv.value ELSE json_response(AdvJson(adv.value))

AdvGetLookup(c) ==
    /\ At(c, "session", "GET", "Advertisement")
    /\ Leave(c, AdvViewGet(advs, req[c].item_id))
    /\ UNCHANGED <<store, now>>

\* Advertisement(**json_data_validated)
NewAdv(data) ==
    [header |-> data["header"].s,
     description |-> data["description"].s,
     owner |-> data["owner"].n]

AdvPostBegin(c, body) ==
    /\ CanBegin(c)
    /\ LET errors == Errors(CreateAdvertisementSchema, body) IN
       IF errors # << >>
       THEN Reject(c, "POST", "Advertisement", 0, body, BadRequest(PyList(errors)))
       ELSE /\ adv_seq + Cardinality({d \in Clients : At(d, "session", "POST", "Advertisement")})
                 < MaxAdvSeq
            /\ Enter(c, "POST", "Advertisement", 0, body,
                     NewAdv(Validated(CreateAdvertisementSchema, body)))
    /\ UNCHANGED <<store, now>>

\* session.add(new_adv); await session.commit(): registration_time is the
\* column's server_default, func.now()
AdvPostCommit(c) ==
    /\ At(c, "session", "POST", "Advertisement")
    /\ LET id == adv_seq + 1
           new_adv == req[c].item
       IN /\ adv_seq' = id
          /\ now' = now + 1
          /\ IF OwnerOk(new_adv.owner)
             THEN /\ advs' = advs @@ (id :> [header |-> new_adv.header,
                                             description |-> new_adv.description,
                                             registration_time |-> now,
                                             owner |-> new_adv.owner])
                  /\ Leave(c, json_response(("id" :> PyInt(id))))
             ELSE \* IntegrityError (foreign key)
                  /\ UNCHANGED advs
                  /\ Leave(c, BadRequest(PyStr("Advertisement already exists")))
    /\ UNCHANGED <<users, user_seq>>

AdvPatchBegin(c, adv_id, body) ==
    /\ CanBegin(c)
    /\ LET errors == Errors(PatchAdvertisementSchema, body) IN
       IF errors # << >>
       THEN Reject(c, "PATCH", "Advertisement", adv_id, body, BadRequest(PyList(errors)))
       ELSE Enter(c, "PATCH", "Advertisement", adv_id, body, << >>)
    /\ UNCHANGED <<store, now>>

AdvPatchLookup(c) ==
    /\ At(c, "session", "PATCH", "Advertisement")
    /\ LookupForWrite(c, advs, "Advertisement")
    /\ UNCHANGED <<store, now>>

\* the attributes of a loaded Advertisement, as Python values
AdvAttributes(adv) ==
    [header |-> PyStr(adv.header),
     description |-> PyStr(adv.description),
     registration_time |-> DateTime(adv.registration_time),
     owner |-> PyInt(adv.owner)]

\* the adv object after the loop `if value: setattr(adv, column, value)`
PatchedAdv(adv, data) ==
    [column \in DOMAIN AdvAttributes(adv) |->
        IF column \in ColumnsSet(data) THEN data[column] ELSE AdvAttributes(adv)[column]]

\* The value the store takes for a parameter of an Integer or DateTime
\* column.  The patch schema types owner and registration_time as str, so
\* the handler hands the store a str for them.  What becomes of it is the
\* database driver's doing and not this program's: a driver that sends the
\* text lets the store cast it (casts), one that insists on an int or a
\* datetime raises DataError.  Both outcomes are kept.
BindInteger(v, casts) ==
    CASE v.k = "int" -> [ok |-> TRUE, value |-> v.n]
      [] v.k = "str" /\ casts /\ IsDigits(v.s) -> [ok |-> TRUE, value |-> ToInt(v.s)]
      [] OTHER -> [ok |-> FALSE, value |-> 0]

BindDateTime(v, casts) ==
    CASE v.k = "datetime" -> [ok |-> TRUE, value |-> v.n]
      [] v.k = "str" /\ casts /\ IsTimestamp(v.s) -> [ok |-> TRUE, value |-> ToTimestamp(v.s)]
      [] OTHER -> [ok |-> FALSE, value |-> 0]

AdvPatchCommit(c, casts) ==
    /\ At(c, "loaded", "PATCH", "Advertisement")
    /\ LET id == req[c].item_id
           adv == req[c].item
           patched == PatchedAdv(adv, Validated(PatchAdvertisementSchema, req[c].body))
           modified == Modified(AdvAttributes(adv), patched)
           owner == BindInteger(patched.owner, casts)
           registration_time == BindDateTime(patched.registration_time, casts)
       IN IF modified = {}
          THEN \* no UPDATE is sent
               /\ UNCHANGED advs
               /\ Leave(c, Success)
          ELSE IF ~owner.ok \/ ~registration_time.ok
          THEN \* DataError, which patch does not catch
               /\ UNCHANGED advs
               /\ Leave(c, ServerError)
          ELSE IF id \notin DOMAIN advs
          THEN \* UPDATE matched no row: StaleDataError
               /\ UNCHANGED advs
               /\ Leave(c, ServerError)
          ELSE IF "owner" \in modified /\ ~OwnerOk(owner.value)
          THEN \* IntegrityError (foreign key), which patch does not catch
               /\ UNCHANGED advs
               /\ Leave(c, ServerError)
          ELSE /\ advs' = [advs EXCEPT ![id] =
                    [header |-> IF "header" \in modified
                                THEN patched.header.s ELSE @.header,
                     description |-> IF "description" \in modified
                                     THEN patched.description.s ELSE @.description,
                     registration_time |-> IF "registration_time" \in modified
                                           THEN registration_time.value
                                           ELSE @.registration_time,
                     owner |-> IF "owner" \in modified THEN owner.value ELSE @.owner]]
               /\ Leave(c, Success)
    /\ UNCHANGED <<users, user_seq, adv_seq, now>>

AdvDeleteBegin(c, adv_id) ==
    /\ CanBegin(c)
    /\ Enter(c, "DELETE", "Advertisement", adv_id, << >>, << >>)
    /\ UNCHANGED <<store, now>>

AdvDeleteLookup(c) ==
    /\ At(c, "session", "DELETE", "Advertisement")
    /\ LookupForWrite(c, advs, "Advertisement")
    /\ UNCHANGED <<store, now>>

AdvDeleteCommit(c) ==
    /\ At(c, "loaded", "DELETE", "Advertisement")
    /\ LET id == req[c].item_id IN
       IF id \notin DOMAIN advs
       THEN \* DELETE matched no row: SQLAlchemy warns and goes on
            /\ UNCHANGED advs
            /\ Leave(c, Success)
       ELSE /\ advs' = Without(advs, id)
            /\ Leave(c, Success)
    /\ UNCHANGED <<users, user_seq, adv_seq, now>>

(***************************************************************************)
(* The requests of a set of clients on each view, and the specifications:  *)
(* Spec, one client and every handler; Concurrent, two clients whose       *)
(* requests on users interleave at their awaits.                           *)
(***************************************************************************)
UserRequests(C, creates, salts, patches) ==
    \/ \E c \in C, id \in UserIds : UserGetBegin(c, id)
    \/ \E c \in C : UserGetLookup(c)
    \/ \E c \in C, body \in creates, salt \in salts : UserPostBegin(c, body, salt)
    \/ \E c \in C : UserPostCommit(c)
    \/ \E c \in C, id \in UserIds, body \in patches : UserPatchBegin(c, id, body)
    \/ \E c \in C : UserPatchLookup(c)
    \/ \E c \in C : UserPatchCommit(c)
    \/ \E c \in C, id \in UserIds : UserDeleteBegin(c, id)
    \/ \E c \in C : UserDeleteLookup(c)
    \/ \E c \in C : UserDeleteCommit(c)

AdvRequests(C) ==
    \/ \E c \in C, id \in AdvIds : AdvGetBegin(c, id)
    \/ \E c \in C : AdvGetLookup(c)
    \/ \E c \in C, body \in AdvCreateBodies : AdvPostBegin(c, body)
    \/ \E c \in C : AdvPostCommit(c)
    \/ \E c \in C, id \in AdvIds, body \in AdvPatchBodies : AdvPatchBegin(c, id, body)
    \/ \E c \in C : AdvPatchLookup(c)
    \/ \E c \in C, casts \in BOOLEAN : AdvPatchCommit(c, casts)
    \/ \E c \in C, id \in AdvIds : AdvDeleteBegin(c, id)
    \/ \E c \in C : AdvDeleteLookup(c)
    \/ \E c \in C : AdvDeleteCommit(c)

Next ==
    \/ UserRequests(Serial, UserCreateBodies, Salts, UserPatchBodies)
    \/ AdvRequests(Serial)

Spec == Init /\ [][Next]_vars

ConcurrentNext ==
    UserRequests(Clients, ConcurrentCreateBodies, {"s1"}, ConcurrentPatchBodies)

Concurrent == Init /\ [][ConcurrentNext]_vars

(***************************************************************************)
(* Properties.  A step of client c is told by its request record:          *)
(* Commits(c, verb, cls) is the step that runs session.commit() of that    *)
(* handler, Finishes(c) any step that ends a request of c, whose record    *)
(* is then req'[c].                                                        *)
(***************************************************************************)
Table(cls) == IF cls = "User" THEN users ELSE advs

Commits(c, verb, cls) ==
    /\ At(c, IF verb = "POST" THEN "session" ELSE "loaded", verb, cls)
    /\ req'[c].pc = "done"

Finishes(c) == req'[c].pc = "done" /\ req'[c] # req[c]

\* the body of the request that a step of c ends
FinishedBody(c) ==
    IF req[c].pc \in {"session", "loaded"} THEN req[c].body ELSE req'[c].body

PatchSchema(cls) == IF cls = "User" THEN PatchUserSchema ELSE PatchAdvertisementSchema

\* a finished GET holds what the view answers for the table as it is (one
\* client: nothing has touched the table since)
GetAnswersTheView ==
    \A c \in Serial :
        req[c].pc = "done" /\ req[c].verb = "GET" =>
            req[c].resp = IF req[c].cls = "User"
                          THEN UserViewGet(users, req[c].item_id)
                          ELSE AdvViewGet(advs, req[c].item_id)

\* POST answered 200 {"id": N}; GET N then answers 200 with, under each key,
\* the value `submitted` gives for it
UserRoundTrip(c, submitted(_, _)) ==
    Commits(c, "POST", "User") /\ req'[c].resp.status = 200 =>
        LET got == UserViewGet(users', req'[c].resp.json["id"].n) IN
        /\ got.status = 200
        /\ DOMAIN got.json = {"username", "email"}
        /\ \A key \in {"username", "email"} : got.json[key] = submitted(req[c].body, key)

AdvRoundTrip(c, submitted(_, _)) ==
    Commits(c, "POST", "Advertisement") /\ req'[c].resp.status = 200 =>
        LET got == AdvViewGet(advs', req'[c].resp.json["id"].n) IN
        /\ got.status = 200
        /\ \A key \in {"header", "description", "owner"} :
              got.json[key] = submitted(req[c].body, key)

AsSent(body, key) == Field(body, key)
AsUserSchema(body, key) == Validated(CreateUserSchema, body)[key]
AsAdvSchema(body, key) == Validated(CreateAdvertisementSchema, body)[key]

\* C1 as stated: a POST answered 200 {"id": N} followed by GET N gives back
\* exactly the values that were sent, and no password.
C1_AsStated ==
    [][\A c \in Clients : UserRoundTrip(c, AsSent) /\ AdvRoundTrip(c, AsSent)]_vars

\* C1, amended: a POST answered 200 {"id": N} followed by GET N gives back
\* the values sent as the create schema coerces them (a number sent for a
\* str field comes back as its decimal text, a numeric text sent for owner
\* comes back as the integer), and the user answer holds no password.
C1_RoundTrip ==
    /\ []GetAnswersTheView
    /\ [][\A c \in Clients : UserRoundTrip(c, AsUserSchema)
                             /\ AdvRoundTrip(c, AsAdvSchema)]_vars

\* a POST /user that sent the number 7 as username was answered with an id,
\* and GET on it answers the text "7"
C1_Witness ==
    \E c \in Clients :
        /\ req[c].pc = "done" /\ req[c].verb = "POST" /\ req[c].cls = "User"
        /\ req[c].resp.status = 200
        /\ UserViewGet(users, req[c].resp.json["id"].n).json["username"] = PyStr("7")

\* the answer to a GET, PATCH or DELETE that a step of c ends, on an id the
\* table does not hold
EndsOnMissing(c) ==
    /\ Finishes(c)
    /\ req'[c].verb \in {"GET", "PATCH", "DELETE"}
    /\ req'[c].item_id \notin DOMAIN Table(req'[c].cls)

DoesNotExist(cls) == NotFound(PyStr(cls \o " does not exist"))

\* C2 as stated: GET, PATCH and DELETE on an id the table does not hold
\* answer 404 {"error": "<Entity> does not exist"} whatever the body, and
\* leave the store as it is.
C2_AsStated ==
    [][\A c \in Clients :
          EndsOnMissing(c) =>
              req'[c].resp = DoesNotExist(req'[c].cls) /\ store' = store]_vars

\* C2, amended: GET and DELETE on an id the table does not hold, and PATCH
\* on it with a body the patch schema accepts, answer 404 {"error":
\* "<Entity> does not exist"}; PATCH with a body the schema rejects answers
\* 400 with the field errors, before the id is looked up; the store is left
\* as it is in every case.
C2_NotFound ==
    [][\A c \in Clients :
          EndsOnMissing(c) =>
              LET errors == IF req'[c].verb = "PATCH"
                            THEN Errors(PatchSchema(req'[c].cls), FinishedBody(c))
                            ELSE << >>
              IN /\ req'[c].resp = IF errors = << >>
                                   THEN DoesNotExist(req'[c].cls)
                                   ELSE BadRequest(PyList(errors))
                 /\ store' = store]_vars

\* a PATCH on a user id that was handed out and is gone was answered 404
C2_Witness ==
    \E c \in Clients :
        /\ req[c].pc = "done" /\ req[c].verb = "PATCH" /\ req[c].cls = "User"
        /\ req[c].item_id <= user_seq /\ req[c].item_id \notin DOMAIN users
        /\ req[c].resp = DoesNotExist("User")

\* C3: when a user holds the username or the email of a POST /user, the POST
\* answers 400 {"error": "user already exists"}, no row is added, and every
\* user is answered by GET as before.
C3_Duplicate ==
    [][\A c \in Clients :
          /\ Commits(c, "POST", "User")
          /\ \E o \in DOMAIN users : \/ users[o].username = req[c].item.username
                                     \/ users[o].email = req[c].item.email
          => /\ req'[c].resp = BadRequest(PyStr("user already exists"))
             /\ DOMAIN users' = DOMAIN users
             /\ \A o \in DOMAIN users : UserViewGet(users', o) = UserViewGet(users, o)]_vars

\* a POST /user was answered "user already exists" while a user is stored
C3_Witness ==
    \E c \in Clients :
        /\ req[c].pc = "done" /\ req[c].verb = "POST" /\ req[c].cls = "User"
        /\ req[c].resp = BadRequest(PyStr("user already exists"))
        /\ DOMAIN users # {}

\* the step in which a PATCH of c on a row the table holds commits
PatchCommits(c) ==
    /\ req[c].pc = "loaded" /\ req[c].verb = "PATCH" /\ req'[c].pc = "done"
    /\ req[c].item_id \in DOMAIN Table(req[c].cls)

PatchData(c) == Validated(PatchSchema(req[c].cls), req[c].body)

\* the text of a column of a row, as a client writes the value
ColumnText(cls, row, column) ==
    CASE cls = "Advertisement" /\ column = "owner" -> ToStr(row.owner)
      [] cls = "Advertisement" /\ column = "registration_time" ->
           isoformat(row.registration_time)
      [] OTHER -> row[column]

\* the fields of the body that are absent, null or "" keep their value
PatchKeeps(c) ==
    LET id == req[c].item_id
        old == Table(req[c].cls)[id]
        new == (IF req[c].cls = "User" THEN users' ELSE advs')[id]
    IN \A column \in DOMAIN PatchData(c) :
          ~(PatchData(c)[column].k = "str" /\ PatchData(c)[column].s # "")
              => new[column] = old[column]

\* the fields of the body with a non-empty value hold that value
PatchUpdates(c) ==
    LET id == req[c].item_id
        new == (IF req[c].cls = "User" THEN users' ELSE advs')[id]
    IN \A column \in DOMAIN PatchData(c) :
          PatchData(c)[column].k = "str" /\ PatchData(c)[column].s # ""
              => ColumnText(req[c].cls, new, column) = PatchData(c)[column].s

\* nothing but the row of the request changes
PatchFrame(c) ==
    /\ DOMAIN users' = DOMAIN users /\ DOMAIN advs' = DOMAIN advs
    /\ \A o \in DOMAIN users :
          (req[c].cls = "User" /\ o = req[c].item_id) \/ users'[o] = users[o]
    /\ \A o \in DOMAIN advs :
          (req[c].cls = "Advertisement" /\ o = req[c].item_id) \/ advs'[o] = advs[o]
    /\ user_seq' = user_seq /\ adv_seq' = adv_seq

\* C4 as stated: a PATCH with a schema-valid body on an existing entity
\* keeps every field that is absent, null or "", sets every field given a
\* non-empty value to that value, and touches nothing else.
C4_AsStated ==
    [][\A c \in Clients :
          PatchCommits(c) => PatchKeeps(c) /\ PatchUpdates(c) /\ PatchFrame(c)]_vars

\* C4, amended: a PATCH with a schema-valid body on an existing entity, with
\* no other request on that entity between its lookup and its commit, keeps
\* every field that is absent, null or "" and touches no other entity; when
\* it is answered 200 every field given a non-empty value holds that value;
\* when the store refuses the update (a username or email another user
\* holds, an owner that is no user, a text the column's type does not take)
\* it is answered with a server error and nothing at all is changed.
C4_Patch ==
    [][\A c \in Clients :
          PatchCommits(c) =>
              /\ PatchKeeps(c)
              /\ PatchFrame(c)
              /\ IF req'[c].resp = Success
                 THEN PatchUpdates(c)
                 ELSE req'[c].resp = ServerError /\ store' = store]_vars

\* a PATCH was answered 200 and the user it named has the password of the
\* body {"username": null, "password": "pw2"}
C4_Witness ==
    \E c \in Clients :
        /\ req[c].pc = "done" /\ req[c].verb = "PATCH" /\ req[c].cls = "User"
        /\ req[c].resp = Success
        /\ req[c].item_id \in DOMAIN users
        /\ users[req[c].item_id].password = "pw2"

\* the passwords the clients send
Passwords == {"pw1", "pw2"}

\* C5 as stated: the password stored for every user is a salted hash of a
\* password a client sent, never the text the client sent.
C5_AsStated ==
    \A id \in DOMAIN users :
        /\ \E password \in Passwords, salt \in Salts :
              users[id].password = hashpw(password, salt)
        /\ users[id].password \notin Passwords

DeleteEnds(c) == Finishes(c) /\ req'[c].verb = "DELETE"

\* an id that was handed out and is not in the table is never in it again
NotReassigned ==
    /\ \A id \in 1..user_seq : id \notin DOMAIN users => id \notin DOMAIN users'
    /\ \A id \in 1..adv_seq : id \notin DOMAIN advs => id \notin DOMAIN advs'

Removed(cls, id) ==
    IF cls = "User"
    THEN users' = [o \in DOMAIN users \ {id} |-> users[o]] /\ advs' = advs
    ELSE advs' = [o \in DOMAIN advs \ {id} |-> advs[o]] /\ users' = users

\* C8 as stated: DELETE on an existing entity answers 200 {"status":
\* "success"} and removes it; DELETE on an id that is gone answers 404; an
\* id that is gone is never given to another entity.
C8_AsStated ==
    [][/\ \A c \in Clients :
             DeleteEnds(c) =>
                 IF req'[c].item_id \in DOMAIN Table(req'[c].cls)
                 THEN req'[c].resp = Success /\ Removed(req'[c].cls, req'[c].item_id)
                 ELSE req'[c].resp = DoesNotExist(req'[c].cls) /\ store' = store
       /\ NotReassigned]_vars

\* C8, amended: DELETE on an existing advertisement, or on an existing user
\* that no advertisement names as owner, answers 200 {"status": "success"}
\* and removes it; DELETE on a user that an advertisement names as owner
\* ends in a server error and removes nothing; DELETE on an id that is gone
\* answers 404; an id that is gone is never given to another entity.
C8_Delete ==
    [][/\ \A c \in Clients :
             DeleteEnds(c) =>
                 LET cls == req'[c].cls
                     id == req'[c].item_id
                 IN IF id \notin DOMAIN Table(cls)
                    THEN req'[c].resp = DoesNotExist(cls) /\ store' = store
                    ELSE IF cls = "User" /\ \E a \in DOMAIN advs : advs[a].owner = id
                    THEN req'[c].resp = ServerError /\ store' = store
                    ELSE req'[c].resp = Success /\ Removed(cls, id)
       /\ NotReassigned]_vars

\* a DELETE was answered 200 and the user it named, whose id was handed out,
\* is gone
C8_Witness ==
    \E c \in Clients :
        /\ req[c].pc = "done" /\ req[c].verb = "DELETE" /\ req[c].cls = "User"
        /\ req[c].resp = Success
        /\ req[c].item_id <= user_seq /\ req[c].item_id \notin DOMAIN users

\* C9: no two stored users have the same username, and no two the same
\* email, however the POST, PATCH and DELETE requests of two clients
\* interleave.
C9_Unique ==
    \A a, b \in DOMAIN users :
        a # b => users[a].username # users[b].username /\ users[a].email # users[b].email

\* two users are stored and a PATCH of one of them ended in a server error
\* while the other client had a request in flight
C9_Witness ==
    \E c, d \in Clients :
        /\ c # d
        /\ Cardinality(DOMAIN users) = 2
        /\ req[c].pc = "done" /\ req[c].verb = "PATCH" /\ req[c].resp = ServerError
        /\ req[d].pc \in {"session", "loaded"}

\* the step of c ends a request at its validation or at its lookup
RejectedEarly(c) ==
    /\ Finishes(c)
    /\ (req[c].pc \notin {"session", "loaded"} \/ req'[c].resp.status = 404)

\* C10: a session is open for a client only while its handler is inside the
\* `async with` block: once the request has ended (200, 400, 404 or a server
\* error) its session is closed; and a request that ends at its validation
\* or at its lookup leaves the store as it is.
C10_Sessions ==
    /\ [](\A c \in Clients : c \in sessions <=> req[c].pc \in {"session", "loaded"})
    /\ [][\A c \in Clients : RejectedEarly(c) => store' = store]_vars

\* a request ended in a server error, its session is closed, and the other
\* client's session is open
C10_Witness ==
    \E c, d \in Clients :
        /\ req[c].pc = "done" /\ req[c].resp = ServerError /\ c \notin sessions
        /\ d \in sessions

====
